---- MODULE Spec2Model ----
(***************************************************************************)
(* Model of two units of the jitsi-meet web client:                        *)
(*   - the features/device-selection reducer (a pure state transition      *)
(*     registered with the ReducerRegistry), run inside a store that       *)
(*     holds the feature state by reference;                               *)
(*   - the web Dialog component (focus assignment, Enter key listener,     *)
(*     submit / cancel handling) driven by the React lifecycle and by      *)
(*     DOM events.                                                         *)
(* JavaScript values are modelled with their type where the type matters   *)
(* for strict equality (===): a Symbol is distinct from the string that    *)
(* spells its description, a number is distinct from a string.             *)
(***************************************************************************)
EXTENDS FiniteSets, Integers, Sequences, TLC

VARIABLES
    \* ---- store holding the features/device-selection state ----
    heap,           \* object reference -> own enumerable properties
    alloc,          \* the references that denote live objects
    state,          \* reference of the current feature state, or undefinedRef
    prevState,      \* the state argument of the last reducer call
    prevFields,     \* the properties prevState had when that call started
    lastAction,     \* <<>> or <<a>>: the action argument of the last reducer call
    lastSet,        \* <<>> or <<r>>: reference carried by the last SET action
    fromAbsent,     \* the store was created without a preloaded state
    \* ---- Dialog component instance and the document ----
    phase,          \* "constructed", "mounted" or "unmounted"
    props,          \* this.props: okDisabled, cancelDisabled, isModal
    dialogElement,  \* this._dialogElement
    activeElement,  \* document.activeElement
    listeners,      \* keydown listeners registered on the document
    open,           \* the dialog has not been hidden by a submit or cancel
    event,          \* the event handled by the last step
    invoked,        \* the handlers the last step invoked
    focusRun        \* what the last run of updateButtonFocus saw and did

storeVars == <<heap, alloc, state, prevState, prevFields, lastAction,
               lastSet, fromAbsent>>
dialogVars == <<phase, props, dialogElement, activeElement, listeners, open,
                event, invoked, focusRun>>
vars == <<storeVars, dialogVars>>

(***************************************************************************)
(* Bounds of the model.                                                    *)
(***************************************************************************)
\* number of object references available to the store (garbage is reclaimed)
NumRefs == 3
\* number of distinct popup handles an action can carry
NumPopups == 2

(***************************************************************************)
(* JavaScript values of the reducer unit.                                  *)
(***************************************************************************)
undefined == "undefined"

\* the absent state: no object
undefinedRef == 0

Refs == 1..NumRefs

\* opaque popup handles (window + transport), and undefined
PopupValues == {"popup" \o ToString(i) : i \in 1..NumPopups} \cup {undefined}

\* the action type: a Symbol, equal only to itself under ===
SET_DEVICE_SELECTION_POPUP == "Symbol(SET_DEVICE_SELECTION_POPUP)"

\* action types a dispatch can carry; undefined is an action without a type
ActionTypes == {SET_DEVICE_SELECTION_POPUP, "SET_DEVICE_SELECTION_POPUP",
                "@@redux/INIT", undefined}

emptyObject == [k \in {} |-> undefined]

\* property read obj.k: undefined when obj has no own property k
Get(obj, k) == IF k \in DOMAIN obj THEN obj[k] ELSE undefined

\* the action objects: with or without type, with or without popupDialog
Actions ==
    { [k \in ks |-> IF k = "type" THEN t ELSE r] :
        ks \in SUBSET {"type", "popupDialog"}, t \in ActionTypes \ {undefined},
        r \in PopupValues }

FieldNames == {"popupDialog", "other"}

\* the feature states a store can be preloaded with
PreloadedStates ==
    UNION { [ks -> PopupValues \ {undefined}] : ks \in SUBSET FieldNames }

\* { ...obj, popupDialog: value }
SpreadWithPopup(obj, value) ==
    [k \in DOMAIN obj \cup {"popupDialog"} |->
        IF k = "popupDialog" THEN value ELSE obj[k]]

\* a mutant of the type test: compares the description, not the Symbol
IsSetActionByName(action) ==
    Get(action, "type") \in {SET_DEVICE_SELECTION_POPUP,
                             "SET_DEVICE_SELECTION_POPUP"}

\* action.type === SET_DEVICE_SELECTION_POPUP
IsSetAction(action) == Get(action, "type") = SET_DEVICE_SELECTION_POPUP

\* allocation of a new object with the given properties
NewObject(h, al, fields) ==
    LET r == CHOOSE x \in Refs : x \notin al
    IN  [heap |-> [h EXCEPT ![r] = fields], alloc |-> al \cup {r}, ref |-> r]

\* the default parameter value: state = {}
DefaultState(h, al, s) ==
    IF s = undefinedRef
    THEN NewObject(h, al, emptyObject)
    ELSE [heap |-> h, alloc |-> al, ref |-> s]

\* a mutant of the reducer: assigns popupDialog on the state it was given
reducerInPlace(h, al, s, action) ==
    LET d == DefaultState(h, al, s)
    IN  IF IsSetAction(action)
        THEN [d EXCEPT !.heap = [d.heap EXCEPT ![d.ref] =
                 SpreadWithPopup(d.heap[d.ref], Get(action, "popupDialog"))]]
        ELSE d

\* a mutant of the reducer: returns a copy in the identity branch
reducerCopying(h, al, s, action) ==
    LET d == DefaultState(h, al, s)
    IN  IF IsSetAction(action)
        THEN NewObject(d.heap, d.alloc,
                 SpreadWithPopup(d.heap[d.ref], Get(action, "popupDialog")))
        ELSE NewObject(d.heap, d.alloc, d.heap[d.ref])

\* the reducer (state = {}, action) => ...; the result is the heap after the
\* call and the reference returned
reducer(h, al, s, action) ==
    LET d == DefaultState(h, al, s)
    IN  IF IsSetAction(action)
        THEN NewObject(d.heap, d.alloc,
                 SpreadWithPopup(d.heap[d.ref], Get(action, "popupDialog")))
        ELSE d

StoreInit ==
    /\ \/ /\ state = undefinedRef
          /\ alloc = {}
          /\ heap = [r \in Refs |-> emptyObject]
          /\ fromAbsent = TRUE
       \/ \E f \in PreloadedStates :
          /\ state = 1
          /\ alloc = {1}
          /\ heap = [r \in Refs |-> IF r = 1 THEN f ELSE emptyObject]
          /\ fromAbsent = FALSE
    /\ prevState = undefinedRef
    /\ prevFields = emptyObject
    /\ lastAction = <<>>
    /\ lastSet = <<>>

\* the store runs the reducer on a dispatched action and keeps the result;
\* objects other than the current state are reclaimed before the call
Dispatch(action) ==
    LET live == {state} \ {undefinedRef}
        h0 == [r \in Refs |-> IF r \in live THEN heap[r] ELSE emptyObject]
        res == reducer(h0, live, state, action)
        keep == {state, res.ref} \ {undefinedRef}
    IN  /\ state' = res.ref
        /\ heap' = [r \in Refs |-> IF r \in keep THEN res.heap[r]
                                   ELSE emptyObject]
        /\ alloc' = keep
        /\ prevState' = state
        /\ prevFields' = IF state = undefinedRef THEN emptyObject
                         ELSE heap[state]
        /\ lastAction' = <<action>>
        /\ lastSet' = IF Get(action, "type") = SET_DEVICE_SELECTION_POPUP
                      THEN <<Get(action, "popupDialog")>> ELSE lastSet
        /\ UNCHANGED fromAbsent

DispatchAny == \E action \in Actions : Dispatch(action) /\ UNCHANGED dialogVars

(***************************************************************************)
(* The Dialog component.                                                   *)
(***************************************************************************)
null == "null"

CANCEL_BUTTON_ID == "modal-dialog-cancel-button"
OK_BUTTON_ID == "modal-dialog-ok-button"

\* the wrapping <div ref = { this._setDialogElement }>
DialogDiv == "dialog-div"
\* a focusable element of this.props.children, inside the form
ChildInput == "child-input"
\* elements of the page that are not part of the dialog
OutsideElements == {"body", "page-element"}

\* typed JavaScript values of the key handler
JSString(s) == [type |-> "string", val |-> s]
JSNumber(s) == [type |-> "number", val |-> s]

\* a === b
StrictEquals(a, b) == a.type = b.type /\ a.val = b.val

\* const enterKeyCode = 13
enterKeyCode == JSNumber("13")

\* the keys of the keyboard events a browser delivers, with their keyCode:
\* KeyboardEvent.key is a string, KeyboardEvent.keyCode a number
KeyboardEvents ==
    { [key |-> JSString("Enter"), keyCode |-> JSNumber("13")],
      [key |-> JSString("Escape"), keyCode |-> JSNumber("27")],
      [key |-> JSString("a"), keyCode |-> JSNumber("65")],
      [key |-> JSString("1"), keyCode |-> JSNumber("49")] }

Props == [okDisabled : BOOLEAN, cancelDisabled : BOOLEAN, isModal : BOOLEAN]

\* _renderCancelButton: the ids of the elements it renders
_renderCancelButton(p) ==
    IF p.cancelDisabled \/ p.isModal THEN {} ELSE {CANCEL_BUTTON_ID}

\* _renderOKButton: the ids of the elements it renders
_renderOKButton(p) ==
    IF p.okDisabled THEN {} ELSE {OK_BUTTON_ID}

\* _renderFooter: the cancel button and the ok button
_renderFooter(p) == _renderCancelButton(p) \cup _renderOKButton(p)

\* render: the elements of the dialog's subtree
render(p) == {DialogDiv, ChildInput} \cup _renderFooter(p)

\* this._dialogElement.contains(el), for the subtree rendered with props p
Contains(p, el) == el \in render(p)

\* this._dialogElement.querySelector(`[id=${id}]`)
QuerySelector(p, id) == IF id \in render(p) THEN id ELSE null

noFocusRun == [ran |-> FALSE, element |-> null, before |-> null,
               target |-> null]

\* a mutant of updateButtonFocus: focuses without the containment test
updateButtonFocusStealing(el, p, active) ==
    IF el # null
    THEN LET buttonToFocus ==
                 IF p.okDisabled THEN QuerySelector(p, CANCEL_BUTTON_ID)
                 ELSE QuerySelector(p, OK_BUTTON_ID)
         IN  IF buttonToFocus # null THEN buttonToFocus ELSE null
    ELSE null

\* a mutant of updateButtonFocus: always looks for the ok button
updateButtonFocusOkOnly(el, p, active) ==
    IF el # null
    THEN IF Contains(p, active) THEN null
         ELSE QuerySelector(p, OK_BUTTON_ID)
    ELSE null

\* a mutant of updateButtonFocus: the two branches exchanged
updateButtonFocusSwapped(el, p, active) ==
    IF el # null
    THEN IF Contains(p, active) THEN null
         ELSE IF p.okDisabled THEN QuerySelector(p, OK_BUTTON_ID)
              ELSE QuerySelector(p, CANCEL_BUTTON_ID)
    ELSE null

\* updateButtonFocus: the element whose focus() is called, or null
updateButtonFocus(el, p, active) ==
    IF el # null
    THEN IF Contains(p, active)
         THEN null
         ELSE LET buttonToFocus ==
                      IF p.okDisabled
                      THEN QuerySelector(p, CANCEL_BUTTON_ID)
                      ELSE QuerySelector(p, OK_BUTTON_ID)
              IN  IF buttonToFocus # null THEN buttonToFocus ELSE null
    ELSE null

\* the record of one run of updateButtonFocus and the focus after it
RunFocus(el, p, active) ==
    LET target == updateButtonFocus(el, p, active)
    IN  [ran |-> TRUE, element |-> el, before |-> active, target |-> target]

FocusAfter(run) == IF run.target # null THEN run.target ELSE run.before

\* document.addEventListener('keydown', f): a listener already there is kept
addEventListener(ls, f) ==
    IF \E i \in 1..Len(ls) : ls[i] = f THEN ls ELSE Append(ls, f)

\* document.removeEventListener('keydown', f)
removeEventListener(ls, f) == SelectSeq(ls, LAMBDA g : g # f)

\* a mutant of componentWillUnmount: leaves the listener registered
componentWillUnmountLeaking(ls) == ls

\* componentWillUnmount: the document's listeners after it
componentWillUnmount(ls) == removeEventListener(ls, "_onKeyDown")

\* componentDidMount, second statement: the document's listeners after it
componentDidMount(ls) == addEventListener(ls, "_onKeyDown")

\* _onKeyDown(e): the handlers that run
_onKeyDown(e) ==
    IF StrictEquals(e.key, enterKeyCode)
    THEN {"_onKeyDown", "_onSubmit"}
    ELSE {"_onKeyDown"}

\* the function a registered listener denotes, applied to the event
Handler(f, e) == IF f = "_onKeyDown" THEN _onKeyDown(e) ELSE {}

\* a mutant of _onCancel: no test of isModal
_onCancelAlways(p) == {"_onCancel", "super._onCancel"}

\* _onCancel(): the handlers that run
_onCancel(p) ==
    IF p.isModal THEN {"_onCancel"} ELSE {"_onCancel", "super._onCancel"}

\* the inherited handlers delegate to an external collaborator; when it
\* succeeds the dialog is hidden (Open -> Closed)
AbstractDialogHandlers == {"_onSubmit", "super._onCancel"}

OpenAfter(called, success) ==
    IF called \cap AbstractDialogHandlers # {} /\ success THEN FALSE ELSE open

noEvent == [kind |-> "none", key |-> null]

DialogInit ==
    /\ phase = "constructed"
    /\ props \in Props
    /\ dialogElement = null
    /\ activeElement \in OutsideElements
    /\ listeners = <<>>
    /\ open = TRUE
    /\ event = noEvent
    /\ invoked = {}
    /\ focusRun = noFocusRun

\* the elements of the document that can hold focus
Focusable ==
    OutsideElements \cup
        (IF phase = "mounted" THEN render(props) \ {DialogDiv} ELSE {})

\* React mounts the instance: render, ref callback, children that ask for
\* focus take it, then componentDidMount
Mount ==
    /\ phase = "constructed"
    /\ phase' = "mounted"
    /\ dialogElement' = DialogDiv
    /\ \E autoFocus \in BOOLEAN :
         LET active == IF autoFocus THEN ChildInput ELSE activeElement
             run == RunFocus(DialogDiv, props, active)
         IN  /\ focusRun' = run
             /\ activeElement' = FocusAfter(run)
    /\ listeners' = componentDidMount(listeners)
    /\ event' = [kind |-> "mount", key |-> null]
    /\ invoked' = {}
    /\ UNCHANGED <<props, open>>
    /\ UNCHANGED storeVars

\* React re-renders the instance with new props, then componentDidUpdate
Update ==
    /\ phase = "mounted"
    /\ \E p \in Props :
         LET active == IF activeElement \in OutsideElements \cup render(p)
                       THEN activeElement ELSE "body"
             changed == \/ props.okDisabled # p.okDisabled
                        \/ props.cancelDisabled # p.cancelDisabled
             run == IF changed THEN RunFocus(dialogElement, p, active)
                    ELSE noFocusRun
         IN  /\ props' = p
             /\ focusRun' = run
             /\ activeElement' = IF changed THEN FocusAfter(run) ELSE active
    /\ event' = [kind |-> "update", key |-> null]
    /\ invoked' = {}
    /\ UNCHANGED <<phase, dialogElement, listeners, open>>
    /\ UNCHANGED storeVars

\* React unmounts the instance: componentWillUnmount, ref callback with null,
\* the subtree leaves the document
Unmount ==
    /\ phase = "mounted"
    /\ phase' = "unmounted"
    /\ listeners' = componentWillUnmount(listeners)
    /\ dialogElement' = null
    /\ activeElement' = IF activeElement \in OutsideElements
                        THEN activeElement ELSE "body"
    /\ event' = [kind |-> "unmount", key |-> null]
    /\ invoked' = {}
    /\ focusRun' = noFocusRun
    /\ UNCHANGED <<props, open>>
    /\ UNCHANGED storeVars

\* the user moves the focus
UserFocus ==
    /\ \E el \in Focusable : el # activeElement /\ activeElement' = el
    /\ event' = [kind |-> "focus", key |-> null]
    /\ invoked' = {}
    /\ focusRun' = noFocusRun
    /\ UNCHANGED <<phase, props, dialogElement, listeners, open>>
    /\ UNCHANGED storeVars

\* a key-down event reaches the document: every registered listener runs
KeyDown ==
    /\ \E e \in KeyboardEvents, success \in BOOLEAN :
         LET called == UNION { Handler(listeners[i], e) :
                                   i \in 1..Len(listeners) }
         IN  /\ event' = [kind |-> "keydown", key |-> e.key.val]
             /\ invoked' = called
             /\ open' = OpenAfter(called, success)
    /\ focusRun' = noFocusRun
    /\ UNCHANGED <<phase, props, dialogElement, activeElement, listeners>>
    /\ UNCHANGED storeVars

\* the form's onSubmit fires (implicit submission from a field of the body,
\* or an external control that submits the form by its id)
FormSubmit ==
    /\ phase = "mounted" /\ open
    /\ \E success \in BOOLEAN :
         /\ invoked' = {"_onSubmit"}
         /\ open' = OpenAfter({"_onSubmit"}, success)
    /\ event' = [kind |-> "formSubmit", key |-> null]
    /\ focusRun' = noFocusRun
    /\ UNCHANGED <<phase, props, dialogElement, activeElement, listeners>>
    /\ UNCHANGED storeVars

\* a click on the ok button: onClick = { this._onSubmit }
OkClick ==
    /\ phase = "mounted" /\ open
    /\ OK_BUTTON_ID \in render(props)
    /\ \E success \in BOOLEAN :
         /\ invoked' = {"_onSubmit"}
         /\ open' = OpenAfter({"_onSubmit"}, success)
    /\ activeElement' = OK_BUTTON_ID
    /\ event' = [kind |-> "okClick", key |-> null]
    /\ focusRun' = noFocusRun
    /\ UNCHANGED <<phase, props, dialogElement, listeners>>
    /\ UNCHANGED storeVars

\* a click on the cancel button: onClick = { this._onCancel }
CancelClick ==
    /\ phase = "mounted" /\ open
    /\ CANCEL_BUTTON_ID \in render(props)
    /\ \E success \in BOOLEAN :
         /\ invoked' = _onCancel(props)
         /\ open' = OpenAfter(_onCancel(props), success)
    /\ activeElement' = CANCEL_BUTTON_ID
    /\ event' = [kind |-> "cancelClick", key |-> null]
    /\ focusRun' = noFocusRun
    /\ UNCHANGED <<phase, props, dialogElement, listeners>>
    /\ UNCHANGED storeVars

\* the modal host signals a dismissal: onDialogDismissed = { this._onCancel }
Dismiss ==
    /\ phase = "mounted" /\ open
    /\ \E success \in BOOLEAN :
         /\ invoked' = _onCancel(props)
         /\ open' = OpenAfter(_onCancel(props), success)
    /\ event' = [kind |-> "dismiss", key |-> null]
    /\ focusRun' = noFocusRun
    /\ UNCHANGED <<phase, props, dialogElement, activeElement, listeners>>
    /\ UNCHANGED storeVars

DialogNext ==
    \/ Mount \/ Update \/ Unmount \/ UserFocus \/ KeyDown
    \/ FormSubmit \/ OkClick \/ CancelClick \/ Dismiss

\* the dialog unit at rest, for the specification of the store alone
DialogIdle ==
    /\ DialogInit
    /\ props = [okDisabled |-> FALSE, cancelDisabled |-> FALSE,
                isModal |-> FALSE]
    /\ activeElement = "body"

\* the store at rest, for the specification of the dialog alone
StoreIdle == StoreInit /\ fromAbsent

(***************************************************************************)
(* Specifications.                                                         *)
(***************************************************************************)
ReducerInit == StoreInit /\ DialogIdle

ReducerNext == DispatchAny

\* the store: any preloaded state or none, any sequence of actions
SpecReducer == ReducerInit /\ [][ReducerNext]_vars

DialogOnlyInit == DialogInit /\ StoreIdle

\* the dialog: one instance through its lifecycle, under any events
SpecDialog == DialogOnlyInit /\ [][DialogNext]_vars

(***************************************************************************)
(* Properties of the reducer.                                              *)
(***************************************************************************)
LastActionType == Get(lastAction[1], "type")

\* C2: for every present state s and every action whose type is not
\* SET_DEVICE_SELECTION_POPUP (an action without type included) the reducer
\* returns s itself, the same reference with the same fields; for the absent
\* state it returns the empty default.
ReducerIdentity ==
    (lastAction # <<>> /\ LastActionType # SET_DEVICE_SELECTION_POPUP) =>
        IF prevState # undefinedRef
        THEN state = prevState /\ heap[state] = prevFields
        ELSE state # undefinedRef /\ heap[state] = emptyObject

ReducerIdentityWitness ==
    /\ lastAction # <<>>
    /\ "type" \notin DOMAIN lastAction[1]
    /\ prevState # undefinedRef
    /\ state = prevState
    /\ DOMAIN heap[state] = FieldNames

\* C3: for every state s and every reference r (undefined included) the
\* reducer applied to s and {type: SET_DEVICE_SELECTION_POPUP, popupDialog: r}
\* returns a state whose popupDialog is r and whose other fields are those of
\* s, and s itself is not modified.
ReducerSet ==
    (lastAction # <<>> /\ LastActionType = SET_DEVICE_SELECTION_POPUP) =>
        /\ state # undefinedRef
        /\ DOMAIN heap[state] = DOMAIN prevFields \cup {"popupDialog"}
        /\ heap[state]["popupDialog"] = Get(lastAction[1], "popupDialog")
        /\ \A k \in DOMAIN prevFields \ {"popupDialog"} :
               heap[state][k] = prevFields[k]
        /\ prevState # undefinedRef => heap[prevState] = prevFields

ReducerSetWitness ==
    /\ lastAction # <<>>
    /\ LastActionType = SET_DEVICE_SELECTION_POPUP
    /\ "popupDialog" \notin DOMAIN lastAction[1]
    /\ prevState # undefinedRef
    /\ DOMAIN prevFields = FieldNames
    /\ heap[state]["popupDialog"] = undefined
    /\ heap[state]["other"] = prevFields["other"]

\* the fields of the state after the reducer has run n times on action a,
\* starting from the current state
FieldsAfter(a, n) ==
    LET live == {state} \ {undefinedRef}
        h0 == [r \in Refs |-> IF r \in live THEN heap[r] ELSE emptyObject]
        r1 == reducer(h0, live, state, a)
        r2 == reducer(r1.heap, {r1.ref}, r1.ref, a)
    IN  IF n = 1 THEN r1.heap[r1.ref] ELSE r2.heap[r2.ref]

\* C10: starting from the absent state, after any sequence of actions
\* popupDialog is absent if no SET_DEVICE_SELECTION_POPUP action occurred and
\* otherwise is the reference carried by the last one; and applying a SET
\* action twice gives the same fields as applying it once.
PopupIsLastSet ==
    fromAbsent =>
        /\ IF lastSet = <<>>
           THEN state # undefinedRef => "popupDialog" \notin DOMAIN heap[state]
           ELSE /\ state # undefinedRef
                /\ Get(heap[state], "popupDialog") = lastSet[1]
        /\ \A a \in Actions :
               Get(a, "type") = SET_DEVICE_SELECTION_POPUP =>
                   FieldsAfter(a, 2) = FieldsAfter(a, 1)

PopupIsLastSetWitness ==
    /\ fromAbsent
    /\ lastSet # <<>>
    /\ lastSet[1] # undefined
    /\ LastActionType = "SET_DEVICE_SELECTION_POPUP"
    /\ state = prevState

(***************************************************************************)
(* Properties of the dialog.                                               *)
(***************************************************************************)
\* C1: while the dialog is mounted a key-down event for the Enter key invokes
\* _onSubmit, and a key-down event for any other key does not.
EnterKeySubmits ==
    (phase = "mounted" /\ event.kind = "keydown") =>
        (("_onSubmit" \in invoked) <=> (event.key = "Enter"))

CancelRequests == {"cancelClick", "dismiss"}

\* C4: while isModal is true the cancel control is not rendered and a
\* cancellation request (cancel click or dismissal signal) does not invoke
\* the inherited cancel handler, so the dialog stays open.
ModalIgnoresCancel ==
    (phase = "mounted" /\ props.isModal) =>
        /\ CANCEL_BUTTON_ID \notin render(props)
        /\ activeElement # CANCEL_BUTTON_ID
        /\ event.kind \in CancelRequests =>
               "super._onCancel" \notin invoked /\ open

ModalIgnoresCancelWitness ==
    /\ phase = "mounted"
    /\ props.isModal
    /\ event.kind = "dismiss"
    /\ invoked = {"_onCancel"}

\* C5: exactly one keydown listener of the instance is registered on the
\* document while it is mounted, none before mount and none after unmount,
\* so a key-down event after unmount invokes no handler of the instance.
ListenerPaired ==
    /\ phase = "mounted" => listeners = <<"_onKeyDown">>
    /\ phase # "mounted" =>
           /\ listeners = <<>>
           /\ event.kind = "keydown" => invoked = {}

ListenerPairedWitness ==
    /\ phase = "unmounted"
    /\ event.kind = "keydown"
    /\ event.key = "Enter"

FocusWasOutside == focusRun.ran /\ ~Contains(props, focusRun.before)

\* C6 as stated: whenever updateButtonFocus runs with ok disabled and cancel
\* enabled and the focus outside the dialog, the cancel control gets focus.
CancelFocusedWhenOkDisabled ==
    (FocusWasOutside /\ props.okDisabled /\ ~props.cancelDisabled) =>
        focusRun.target = CANCEL_BUTTON_ID /\ activeElement = CANCEL_BUTTON_ID

\* C6 amended: whenever updateButtonFocus runs with ok disabled, cancel
\* enabled and the dialog not modal, and the focus outside the dialog, the
\* cancel control gets focus.
CancelFocusedWhenOkDisabledNotModal ==
    (FocusWasOutside /\ props.okDisabled /\ ~props.cancelDisabled
         /\ ~props.isModal) =>
        focusRun.target = CANCEL_BUTTON_ID /\ activeElement = CANCEL_BUTTON_ID

CancelFocusedWitness ==
    /\ FocusWasOutside
    /\ event.kind = "update"
    /\ props.okDisabled /\ ~props.cancelDisabled /\ ~props.isModal
    /\ activeElement = CANCEL_BUTTON_ID

\* C7: whenever updateButtonFocus runs with ok enabled and the focus outside
\* the dialog, whatever cancelDisabled and isModal are, the confirm control
\* gets focus and the cancel control does not.
OkFocusedWhenEnabled ==
    (FocusWasOutside /\ ~props.okDisabled) =>
        /\ focusRun.target = OK_BUTTON_ID
        /\ activeElement = OK_BUTTON_ID
        /\ activeElement # CANCEL_BUTTON_ID

OkFocusedWitness ==
    /\ FocusWasOutside
    /\ ~props.okDisabled /\ ~props.cancelDisabled /\ ~props.isModal
    /\ CANCEL_BUTTON_ID \in render(props)
    /\ activeElement = OK_BUTTON_ID

\* C8: in every run of updateButtonFocus, at mount and at update, where the
\* focused element is inside the dialog element or where there is no dialog
\* element, the focused element is left unchanged.
FocusNotStolen ==
    (focusRun.ran /\ (focusRun.element = null
                        \/ Contains(props, focusRun.before))) =>
        focusRun.target = null /\ activeElement = focusRun.before

FocusNotStolenWitness ==
    /\ focusRun.ran
    /\ event.kind = "update"
    /\ focusRun.before = ChildInput
    /\ ~props.okDisabled
    /\ activeElement = ChildInput

\* C9: with okDisabled true no event invokes the submit handler, and with
\* cancelDisabled true no event invokes the inherited cancel handler.
DisabledActionNotCarriedOut ==
    /\ props.okDisabled => "_onSubmit" \notin invoked
    /\ props.cancelDisabled => "super._onCancel" \notin invoked

====
